---- MODULE Spec2Model ----
(***************************************************************************)
(* Asynchronous task-generation and submission-evaluation pipeline of the  *)
(* Codular backend: alias allocation, generation and regeneration jobs,    *)
(* submission jobs, the RecordStore (PostgreSQL) and the StatusCache       *)
(* (Redis).  Every handler and every background job is a sequence of       *)
(* steps, one step per store or collaborator call; steps of different      *)
(* requests interleave freely, as goroutines do.                           *)
(***************************************************************************)
EXTENDS Integers, Sequences, FiniteSets, TLC

(***************************************************************************)
(* Bounds of the model.                                                    *)
(***************************************************************************)
\* requests of all kinds (polls included) issued over a run
MaxRequests == 2
\* generation requests issued over a run
NumGen == 2
\* regeneration requests issued over a run
NumRegen == 2
\* submission requests issued over a run
NumSub == 2

GenIds == 1..NumGen
RegenIds == 1..NumRegen
SubIds == 1..NumSub
\* the submission ids a client polls: those that can exist, and one more
PollIds == 1..(NumSub + 1)

\* the strings generateAlias can return for the configured alias length
Aliases == {"a1", "a2"}

\* the source code a client submits for generation
UserCode == "src"

\* Request.SkipsNumber of a skips generation request: required, gte=0
SkipsNumbers == {1, 2}

(***************************************************************************)
(* Values.                                                                 *)
(***************************************************************************)
NoStatus == [status |-> "None", result |-> "", error |-> ""]
TaskStatus(s, r, e) == [status |-> s, result |-> r, error |-> e]

NullInt == [null |-> TRUE, val |-> 0]
NullArr == [null |-> TRUE, val |-> <<>>]
IntVal(n) == [null |-> FALSE, val |-> n]
ArrVal(s) == [null |-> FALSE, val |-> s]

NoTx == [tasks |-> {}, aliases |-> {}]

\* answers of the generation handlers
OK == "200 OK"
CheckFailed == "500 failed to check alias existence in db"
InternalError == "500 internal server error"
NotFound == "404 task not found"

(***************************************************************************)
(* The collaborator.  SendChat returns an error or a text; a text is a     *)
(* body, possibly wrapped in a ```json code fence.                         *)
(***************************************************************************)
EmptyBody == [kind |-> "empty", code |-> "", answers |-> <<>>]
GarbageBody == [kind |-> "garbage", code |-> "", answers |-> <<>>]
GenJson(c, a) == [kind |-> "json", code |-> c, answers |-> a]
\* what the collaborator answers: nothing, text that is no JSON, or an
\* LLMResponse with its code and a list of none, one or two answers
GenBodies ==
    {EmptyBody, GarbageBody,
     GenJson("c1", <<>>), GenJson("c1", <<"+">>), GenJson("c2", <<"+", "b">>)}
GenTexts == [fence : BOOLEAN, body : GenBodies]

\* CleanLLMResponse: trims the ```json prefix and the ``` suffix
CleanLLMResponse(text) == [text EXCEPT !.fence = FALSE]

\* json.Unmarshal of a text: an error unless the text is a bare JSON document
Unmarshal(text) ==
    IF text.fence \/ text.body.kind # "json"
    THEN [ok |-> FALSE, code |-> "", answers |-> <<>>]
    ELSE [ok |-> TRUE, code |-> text.body.code, answers |-> text.body.answers]

\* the body of an answer with a status other than 200, as SendChat puts it
\* into its error: text, or bytes that are not valid UTF-8
UpstreamText == "upstream"
UpstreamBytes == "upstream <FF>"

SendError == [ok |-> FALSE, text |-> [fence |-> FALSE, body |-> EmptyBody],
              err |-> UpstreamText]
SendErrorRaw == [ok |-> FALSE, text |-> [fence |-> FALSE, body |-> EmptyBody],
                 err |-> UpstreamBytes]
SendText(t) == [ok |-> TRUE, text |-> t, err |-> ""]

\* the content "": a text with nothing in it
EmptyText == [fence |-> FALSE, body |-> EmptyBody]

\* what the collaborator's endpoint answers: a status code, a body that is
\* valid UTF-8 or not, and the choices in it, each a message content
HttpResponses ==
    [status : {200, 500}, utf8 : BOOLEAN, choices : {<<>>} \cup {<<t>> : t \in GenTexts}]

\* SendChat: an error that quotes the body for a status other than 200, an
\* error for an answer without choices; otherwise the content of the first
\* choice, whatever it is
SendChat(h) ==
    IF h.status # 200 THEN (IF h.utf8 THEN SendError ELSE SendErrorRaw)
    ELSE IF Len(h.choices) = 0 THEN SendError
    ELSE SendText(h.choices[1])

GenReplies == {SendChat(h) : h \in HttpResponses}

\* ProcessCode with the error of json.Unmarshal dropped
ProcessCodeUnchecked(reply) ==
    IF ~reply.ok
    THEN [err |-> "failed to send request: " \o reply.err, code |-> "", answers |-> <<>>]
    ELSE LET d == Unmarshal(CleanLLMResponse(reply.text))
         IN [err |-> "", code |-> d.code, answers |-> d.answers]

\* skips.ProcessCode: one collaborator call, fence stripped, then parsed
ProcessCode(reply) ==
    IF ~reply.ok
    THEN [err |-> "failed to send request: " \o reply.err, code |-> "", answers |-> <<>>]
    ELSE LET d == Unmarshal(CleanLLMResponse(reply.text))
         IN IF ~d.ok
            THEN [err |-> "failed to decode request: syntax", code |-> "", answers |-> <<>>]
            ELSE [err |-> "", code |-> d.code, answers |-> d.answers]

\* noises.processCode: one collaborator call, parsed as it is; the answer
\* list is the submitted source code
processCode(reply) ==
    IF ~reply.ok
    THEN [err |-> "failed to send request: " \o reply.err, code |-> "", answers |-> <<>>]
    ELSE LET d == Unmarshal(reply.text)
         IN IF ~d.ok
            THEN [err |-> "failed to decode request: syntax", code |-> "", answers |-> <<>>]
            ELSE [err |-> "", code |-> d.code, answers |-> <<UserCode>>]

(***************************************************************************)
(* State.                                                                  *)
(***************************************************************************)
VARIABLES
    alive,       \* the server process is running
    tasks,       \* RecordStore: committed rows of table tasks
    aliasRows,   \* RecordStore: committed rows of table aliases
    nextTaskId,  \* RecordStore: the sequence behind tasks.id
    submissions, \* RecordStore: rows of table submissions
    status,      \* StatusCache: alias -> status blob
    gen,         \* generation requests and their jobs
    regen,       \* regeneration requests and their jobs
    sub,         \* submission requests and their jobs
    polls,       \* the answers given to polls, in order
    edits        \* the answers given to visibility changes, in order

vars ==
    <<alive, tasks, aliasRows, nextTaskId, submissions, status, gen, regen, sub, polls, edits>>

\* requests issued so far
Issued ==
    Cardinality({i \in GenIds : gen[i].pc # "idle"})
    + Cardinality({i \in RegenIds : regen[i].pc # "idle"})
    + Cardinality({i \in SubIds : sub[i].pc # "idle"})
    + Len(polls)
    + Len(edits)

\* time.Now().UTC(): the clock, which has advanced with every request received
Now == Issued

IdleGen == [pc |-> "idle", kind |-> "skips", number |-> 0, alias |-> "", resp |-> "",
            code |-> "", answers |-> <<>>, err |-> "", tx |-> NoTx, logged |-> FALSE]

\* the answer made out when the job returns, from the job's outcome
GenReturnAnswering(g, logged) ==
    [g EXCEPT !.pc = "done", !.number = 0, !.code = "", !.answers = <<>>, !.err = "",
              !.logged = logged,
              !.resp = IF g.err # "" THEN InternalError ELSE OK]

\* the job returns: its locals are gone; what it logged stays
GenReturn(g, logged) ==
    [g EXCEPT !.pc = "done", !.number = 0, !.code = "", !.answers = <<>>, !.err = "",
              !.logged = logged]

(***************************************************************************)
(* RecordStore: tables tasks and aliases.                                  *)
(***************************************************************************)
\* an existence check that finds every alias
CheckAliasExistAlways(a) == TRUE

\* CheckAliasExist: SELECT EXISTS (SELECT 1 FROM aliases WHERE alias = $1)
CheckAliasExist(a) == \E r \in aliasRows : r.alias = a

\* the row SaveSkipsCodeWithAlias inserts into tasks
SkipsTaskRow(id, skipsCode, userOriginalCode, answers, createdAt) ==
    [id |-> id, type |-> "skips", taskCode |-> skipsCode,
     userOriginalCode |-> userOriginalCode, answers |-> answers,
     created_at |-> createdAt, public |-> FALSE]

\* CHECK of table tasks; array_length of an empty array is NULL, and a CHECK
\* whose value is NULL passes
TaskCheck(row) ==
    \/ Len(row.answers) = 0
    \/ row.type = "noises" /\ Len(row.answers) = 1
    \/ row.type = "skips" /\ Len(row.answers) >= 1

\* table aliases without its UNIQUE constraint
UniqueAliasDropped(a) == TRUE

\* aliases.alias is UNIQUE: an INSERT of an alias that a committed row holds fails
UniqueAlias(a) == ~CheckAliasExist(a)

\* the two INSERTs run outside a transaction: nothing is taken back
RollbackLeak(table, pending) == table \cup pending

\* tx.Rollback: the rows written inside the transaction are dropped
Rollback(table, pending) == table

\* tx.Commit: the rows written inside the transaction become visible
Commit(table, pending) == table \cup pending

\* aliases held by the open transactions of other generation jobs
PendingAliases(i) ==
    {r.alias : r \in UNION {gen[j].tx.aliases : j \in GenIds \ {i}}}

(***************************************************************************)
(* StatusCache.                                                            *)
(***************************************************************************)
\* a Go string as json.Marshal encodes it: coerced to valid UTF-8, every
\* invalid byte replaced by U+FFFD
ToValidUTF8(str) ==
    IF str = "failed to send request: " \o UpstreamBytes
    THEN "failed to send request: upstream <U+FFFD>"
    ELSE str

\* json.Marshal of a TaskStatus: the members of the document; result and
\* error are omitempty
MarshalStatus(blob) ==
    {<<"status", ToValidUTF8(blob.status)>>}
    \cup (IF blob.result = "" THEN {} ELSE {<<"result", ToValidUTF8(blob.result)>>})
    \cup (IF blob.error = "" THEN {} ELSE {<<"error", ToValidUTF8(blob.error)>>})

\* the member of a document that json.Unmarshal assigns to a field: the zero
\* value when the document has no such member
Member(doc, key) ==
    IF \E m \in doc : m[1] = key THEN (CHOOSE m \in doc : m[1] = key)[2] ELSE ""

\* json.Unmarshal of the stored document into a TaskStatus
UnmarshalStatus(doc) ==
    [status |-> Member(doc, "status"), result |-> Member(doc, "result"),
     error |-> Member(doc, "error")]

\* SetTaskStatus: HSET task_status:<alias> data <json.Marshal(blob)>; the
\* entry is kept as GetTaskStatus decodes it, and the whole entry is replaced
SetTaskStatus(a, blob) ==
    status' = [status EXCEPT ![a] = UnmarshalStatus(MarshalStatus(blob))]

(***************************************************************************)
(* Generation request (skips.New, noises.New) and its job.                 *)
(***************************************************************************)
\* the request is decoded and validated and its language resolved
GenStart(i) ==
    /\ alive
    /\ gen[i].pc = "idle"
    /\ i > 1 => gen[i - 1].pc # "idle"
    /\ Issued < MaxRequests
    /\ \E k \in {"skips", "noises"} :
       \E n \in IF k = "skips" THEN SkipsNumbers ELSE {0} :
         gen' = [gen EXCEPT ![i].pc = "alloc", ![i].kind = k, ![i].number = n]
    /\ UNCHANGED <<alive, tasks, aliasRows, nextTaskId, submissions, status, regen, sub, polls, edits>>

\* the allocation loop leaving with its candidate whatever CheckAliasExist
\* reports
GenAllocUnchecked(i, a, dbOk) ==
    /\ alive
    /\ gen[i].pc = "alloc"
    /\ gen' = [gen EXCEPT ![i] =
                 IF ~dbOk THEN [@ EXCEPT !.pc = "done", !.resp = CheckFailed, !.alias = "",
                                          !.number = 0]
                 ELSE [@ EXCEPT !.pc = "setproc", !.alias = a]]
    /\ UNCHANGED <<alive, tasks, aliasRows, nextTaskId, submissions, status, regen, sub, polls, edits>>

\* the allocation loop going round again after an error of CheckAliasExist
GenAllocRetry(i, a, dbOk) ==
    /\ alive
    /\ gen[i].pc = "alloc"
    /\ gen' = [gen EXCEPT ![i] =
                 IF ~dbOk \/ CheckAliasExist(a) THEN [@ EXCEPT !.alias = a]
                 ELSE [@ EXCEPT !.pc = "setproc", !.alias = a]]
    /\ UNCHANGED <<alive, tasks, aliasRows, nextTaskId, submissions, status, regen, sub, polls, edits>>

\* one round of the allocation loop: generateAlias, then CheckAliasExist
\* a is what generateAlias returns; dbOk: the query of CheckAliasExist succeeds
GenAllocWith(i, a, dbOk) ==
    /\ alive
    /\ gen[i].pc = "alloc"
    /\ gen' = [gen EXCEPT ![i] =
                 IF ~dbOk THEN [@ EXCEPT !.pc = "done", !.resp = CheckFailed, !.alias = "",
                                          !.number = 0]
                 ELSE IF CheckAliasExist(a) THEN [@ EXCEPT !.alias = a]
                 ELSE [@ EXCEPT !.pc = "setproc", !.alias = a]]
    /\ UNCHANGED <<alive, tasks, aliasRows, nextTaskId, submissions, status, regen, sub, polls, edits>>

GenAlloc(i) == \E a \in Aliases, dbOk \in BOOLEAN : GenAllocWith(i, a, dbOk)

\* New answering 200 and launching the job whatever SetTaskStatus returns
GenSetProcessingUnchecked(i, redisOk) ==
    /\ alive
    /\ gen[i].pc = "setproc"
    /\ IF redisOk
       THEN SetTaskStatus(gen[i].alias, TaskStatus("Processing", "", ""))
       ELSE UNCHANGED status
    /\ gen' = [gen EXCEPT ![i].pc = "process", ![i].resp = OK]
    /\ UNCHANGED <<alive, tasks, aliasRows, nextTaskId, submissions, regen, sub, polls, edits>>

\* SetTaskStatus(Processing), the 200 answer, and the launch of the job
\* redisOk: the StatusCache accepts the write
GenSetProcessingWith(i, redisOk) ==
    /\ alive
    /\ gen[i].pc = "setproc"
    /\ IF redisOk
       THEN /\ SetTaskStatus(gen[i].alias, TaskStatus("Processing", "", ""))
            /\ gen' = [gen EXCEPT ![i].pc = "process", ![i].resp = OK]
       ELSE /\ gen' = [gen EXCEPT ![i].pc = "done", ![i].resp = InternalError,
                                  ![i].alias = "", ![i].number = 0]
            /\ UNCHANGED status
    /\ UNCHANGED <<alive, tasks, aliasRows, nextTaskId, submissions, regen, sub, polls, edits>>

GenSetProcessing(i) == \E redisOk \in BOOLEAN : GenSetProcessingWith(i, redisOk)

\* processTaskAsync calling the collaborator again after a failed call
GenProcessRetry(i, reply) ==
    /\ alive
    /\ gen[i].pc = "process"
    /\ LET r == IF gen[i].kind = "skips" THEN ProcessCode(reply) ELSE processCode(reply)
       IN gen' = [gen EXCEPT ![i] =
                    IF ~reply.ok THEN [@ EXCEPT !.err = r.err]
                    ELSE IF r.err # "" THEN [@ EXCEPT !.pc = "fail", !.err = r.err]
                    ELSE [@ EXCEPT !.pc = "insert", !.code = r.code, !.answers = r.answers]]
    /\ UNCHANGED <<alive, tasks, aliasRows, nextTaskId, submissions, status, regen, sub, polls, edits>>

\* processTaskAsync: the collaborator call and the parse of its answer
\* reply is what SendChat returns
GenProcessWith(i, reply) ==
    /\ alive
    /\ gen[i].pc = "process"
    /\ LET r == IF gen[i].kind = "skips" THEN ProcessCode(reply) ELSE processCode(reply)
       IN gen' = [gen EXCEPT ![i] =
                    IF r.err # "" THEN [@ EXCEPT !.pc = "fail", !.err = r.err]
                    ELSE [@ EXCEPT !.pc = "insert", !.code = r.code, !.answers = r.answers]]
    /\ UNCHANGED <<alive, tasks, aliasRows, nextTaskId, submissions, status, regen, sub, polls, edits>>

GenProcess(i) == \E reply \in GenReplies : GenProcessWith(i, reply)

\* SaveSkipsCodeWithAlias up to the commit: Begin, INSERT INTO tasks,
\* INSERT INTO aliases; an error rolls the transaction back
GenSaveInsert(i) ==
    /\ alive
    /\ gen[i].pc = "insert"
    /\ LET row == SkipsTaskRow(nextTaskId, gen[i].code,
                               IF gen[i].kind = "skips" THEN UserCode ELSE "", gen[i].answers,
                               Now)
           arow == [alias |-> gen[i].alias, task_id |-> nextTaskId]
       IN \E out \in {"begin", "task", "alias", "ok"} :
            \/ /\ out = "begin"
               /\ gen' = [gen EXCEPT ![i].pc = "fail",
                            ![i].err = "failed to save task: failed to begin transaction"]
               /\ UNCHANGED <<nextTaskId, tasks, aliasRows>>
            \/ /\ out = "task" \/ ~TaskCheck(row)
               /\ out # "begin"
               /\ gen' = [gen EXCEPT ![i].pc = "fail",
                            ![i].err = "failed to save task: failed to insert task"]
               /\ tasks' = Rollback(tasks, {})
               /\ UNCHANGED <<nextTaskId, aliasRows>>
            \/ /\ TaskCheck(row)
               /\ out = "alias" \/ (out = "ok" /\ ~UniqueAlias(gen[i].alias))
               /\ gen' = [gen EXCEPT ![i].pc = "fail",
                            ![i].err = "failed to save task: failed to insert alias"]
               /\ nextTaskId' = nextTaskId + 1
               /\ tasks' = Rollback(tasks, {row})
               /\ aliasRows' = Rollback(aliasRows, {})
            \/ /\ TaskCheck(row)
               /\ out = "ok"
               /\ UniqueAlias(gen[i].alias)
               /\ gen[i].alias \notin PendingAliases(i)
               /\ gen' = [gen EXCEPT ![i].pc = "commit",
                            ![i].tx = [tasks |-> {row}, aliases |-> {arow}]]
               /\ nextTaskId' = nextTaskId + 1
               /\ UNCHANGED <<tasks, aliasRows>>
    /\ UNCHANGED <<alive, submissions, status, regen, sub, polls, edits>>

\* processTaskAsync going on to Done whatever SaveSkipsCodeWithAlias returns
GenSaveCommitUnchecked(i) ==
    /\ alive
    /\ gen[i].pc = "commit"
    /\ \E dbOk \in BOOLEAN :
         /\ tasks' = IF dbOk THEN Commit(tasks, gen[i].tx.tasks)
                     ELSE Rollback(tasks, gen[i].tx.tasks)
         /\ aliasRows' = IF dbOk THEN Commit(aliasRows, gen[i].tx.aliases)
                         ELSE Rollback(aliasRows, gen[i].tx.aliases)
         /\ gen' = [gen EXCEPT ![i].pc = "setdone", ![i].tx = NoTx]
    /\ UNCHANGED <<alive, nextTaskId, submissions, status, regen, sub, polls, edits>>

\* SaveSkipsCodeWithAlias: tx.Commit, or the deferred tx.Rollback
GenSaveCommit(i) ==
    /\ alive
    /\ gen[i].pc = "commit"
    /\ \E dbOk \in BOOLEAN :
         IF dbOk
         THEN /\ tasks' = Commit(tasks, gen[i].tx.tasks)
              /\ aliasRows' = Commit(aliasRows, gen[i].tx.aliases)
              /\ gen' = [gen EXCEPT ![i].pc = "setdone", ![i].tx = NoTx]
         ELSE /\ tasks' = Rollback(tasks, gen[i].tx.tasks)
              /\ aliasRows' = Rollback(aliasRows, gen[i].tx.aliases)
              /\ gen' = [gen EXCEPT ![i].pc = "fail", ![i].tx = NoTx,
                           ![i].err = "failed to save task: failed to commit transaction"]
    /\ UNCHANGED <<alive, nextTaskId, submissions, status, regen, sub, polls, edits>>

\* processTaskAsync without the return after SetTaskStatus(Error): the job
\* goes on to save
GenSetErrorNoReturn(i, redisOk) ==
    /\ alive
    /\ gen[i].pc = "fail"
    /\ IF redisOk
       THEN /\ SetTaskStatus(gen[i].alias, TaskStatus("Error", "", gen[i].err))
            /\ gen' = [gen EXCEPT ![i].pc = "insert", ![i].err = ""]
       ELSE /\ gen' = [gen EXCEPT ![i] = GenReturn(@, TRUE)]
            /\ UNCHANGED status
    /\ UNCHANGED <<alive, tasks, aliasRows, nextTaskId, submissions, regen, sub, polls, edits>>

\* processTaskAsync: SetTaskStatus(Error) after a failed step; a refused
\* write is logged
GenSetErrorWith(i, redisOk) ==
    /\ alive
    /\ gen[i].pc = "fail"
    /\ IF redisOk
       THEN /\ SetTaskStatus(gen[i].alias, TaskStatus("Error", "", gen[i].err))
            /\ gen' = [gen EXCEPT ![i] = GenReturn(@, FALSE)]
       ELSE /\ gen' = [gen EXCEPT ![i] = GenReturn(@, TRUE)]
            /\ UNCHANGED status
    /\ UNCHANGED <<alive, tasks, aliasRows, nextTaskId, submissions, regen, sub, polls, edits>>

GenSetError(i) == \E redisOk \in BOOLEAN : GenSetErrorWith(i, redisOk)

\* processTaskAsync writing Done with the submitted code as the result
GenSetDoneOriginal(i) ==
    /\ alive
    /\ gen[i].pc = "setdone"
    /\ \E redisOk \in BOOLEAN :
         IF redisOk
         THEN /\ SetTaskStatus(gen[i].alias, TaskStatus("Done", UserCode, ""))
              /\ gen' = [gen EXCEPT ![i] = GenReturn(@, FALSE)]
         ELSE /\ gen' = [gen EXCEPT ![i] = GenReturn(@, TRUE)]
              /\ UNCHANGED status
    /\ UNCHANGED <<alive, tasks, aliasRows, nextTaskId, submissions, regen, sub, polls, edits>>

\* processTaskAsync: SetTaskStatus(Done) after the commit
GenSetDone(i) ==
    /\ alive
    /\ gen[i].pc = "setdone"
    /\ \E redisOk \in BOOLEAN :
         IF redisOk
         THEN /\ SetTaskStatus(gen[i].alias, TaskStatus("Done", gen[i].code, ""))
              /\ gen' = [gen EXCEPT ![i] = GenReturn(@, FALSE)]
         ELSE /\ gen' = [gen EXCEPT ![i] = GenReturn(@, TRUE)]
              /\ UNCHANGED status
    /\ UNCHANGED <<alive, tasks, aliasRows, nextTaskId, submissions, regen, sub, polls, edits>>

(***************************************************************************)
(* Regeneration request (regenerate.New) and its job.                      *)
(***************************************************************************)
IdleRegen == [pc |-> "idle", alias |-> "", resp |-> "", taskId |-> 0, type |-> "",
              original |-> "",
              code |-> "", answers |-> <<>>, err |-> "", logged |-> FALSE]

RegenReturn(g, logged) ==
    [g EXCEPT !.pc = "done", !.taskId = 0, !.type = "", !.original = "", !.code = "",
              !.answers = <<>>, !.err = "", !.logged = logged]

\* GetTaskDetailsByAlias: tasks JOIN aliases WHERE aliases.alias = $1
GetTaskDetailsByAlias(a) ==
    {t \in tasks : \E r \in aliasRows : r.alias = a /\ r.task_id = t.id}

\* UpdateTaskCodeAndAnswers:
\* UPDATE tasks SET taskCode = $1, answers = $2, created_at = $3 WHERE id = $4
UpdateTaskCodeAndAnswers(taskID, taskCode, answers) ==
    {IF t.id = taskID
     THEN [t EXCEPT !.taskCode = taskCode, !.answers = answers, !.created_at = Now]
     ELSE t
       : t \in tasks}

\* UpdateTaskPublicStatus: UPDATE tasks SET public = $1 WHERE id = $2
UpdateTaskPublicStatus(taskID, public) ==
    {IF t.id = taskID THEN [t EXCEPT !.public = public] ELSE t : t \in tasks}

\* the alias comes from the path; the task is looked up, then
\* SetTaskStatus(Processing), the 200 answer, and the launch of the job
RegenNew(i) ==
    /\ alive
    /\ regen[i].pc = "idle"
    /\ i > 1 => regen[i - 1].pc # "idle"
    /\ Issued < MaxRequests
    /\ \E a \in Aliases, dbOk \in BOOLEAN, redisOk \in BOOLEAN :
         LET found == GetTaskDetailsByAlias(a)
         IN IF ~dbOk \/ found = {}
            THEN /\ regen' = [regen EXCEPT ![i] = [@ EXCEPT !.pc = "done", !.resp = NotFound]]
                 /\ UNCHANGED status
            ELSE IF ~redisOk
            THEN /\ regen' = [regen EXCEPT ![i] = [@ EXCEPT !.pc = "done", !.resp = InternalError]]
                 /\ UNCHANGED status
            ELSE /\ SetTaskStatus(a, TaskStatus("Processing", "", ""))
                 /\ \E t \in found :
                      regen' = [regen EXCEPT ![i] =
                                  [@ EXCEPT !.pc = "process", !.resp = OK, !.alias = a,
                                            !.taskId = t.id, !.type = t.type,
                                            !.original = t.userOriginalCode]]
    /\ UNCHANGED <<alive, tasks, aliasRows, nextTaskId, submissions, gen, sub, polls, edits>>

\* processTaskAsync: the collaborator call for the stored original code
\* reply is what SendChat returns
RegenProcessWith(i, reply) ==
    /\ alive
    /\ regen[i].pc = "process"
    /\ LET r == IF regen[i].type = "skips" THEN ProcessCode(reply)
                ELSE [processCode(reply) EXCEPT !.answers = <<regen[i].original>>]
       IN regen' = [regen EXCEPT ![i] =
                      IF r.err # "" THEN [@ EXCEPT !.pc = "fail", !.err = r.err]
                      ELSE [@ EXCEPT !.pc = "update", !.code = r.code, !.answers = r.answers]]
    /\ UNCHANGED <<alive, tasks, aliasRows, nextTaskId, submissions, status, gen, sub, polls, edits>>

RegenProcess(i) == \E reply \in GenReplies : RegenProcessWith(i, reply)

\* processTaskAsync reporting a failed update after the row was written
RegenUpdatePartial(i) ==
    /\ alive
    /\ regen[i].pc = "update"
    /\ \E dbOk \in BOOLEAN :
         /\ tasks' = UpdateTaskCodeAndAnswers(regen[i].taskId, regen[i].code, <<>>)
         /\ regen' = IF dbOk THEN [regen EXCEPT ![i].pc = "setdone"]
                     ELSE [regen EXCEPT ![i].pc = "fail",
                             ![i].err = "failed to update task: failed to update task"]
    /\ UNCHANGED <<alive, aliasRows, nextTaskId, submissions, status, gen, sub, polls, edits>>

\* processTaskAsync: UpdateTaskCodeAndAnswers
RegenUpdate(i) ==
    /\ alive
    /\ regen[i].pc = "update"
    /\ \E dbOk \in BOOLEAN :
         IF /\ dbOk
            /\ \E t \in tasks : t.id = regen[i].taskId
            /\ \A t \in UpdateTaskCodeAndAnswers(regen[i].taskId, regen[i].code,
                                                  regen[i].answers) : TaskCheck(t)
         THEN /\ tasks' = UpdateTaskCodeAndAnswers(regen[i].taskId, regen[i].code,
                                                   regen[i].answers)
              /\ regen' = [regen EXCEPT ![i].pc = "setdone"]
         ELSE /\ regen' = [regen EXCEPT ![i].pc = "fail",
                             ![i].err = "failed to update task: failed to update task"]
              /\ UNCHANGED tasks
    /\ UNCHANGED <<alive, aliasRows, nextTaskId, submissions, status, gen, sub, polls, edits>>

\* processTaskAsync: SetTaskStatus(Error) after a failed step; a refused
\* write is logged
RegenSetErrorWith(i, redisOk) ==
    /\ alive
    /\ regen[i].pc = "fail"
    /\ IF redisOk
       THEN /\ SetTaskStatus(regen[i].alias, TaskStatus("Error", "", regen[i].err))
            /\ regen' = [regen EXCEPT ![i] = RegenReturn(@, FALSE)]
       ELSE /\ regen' = [regen EXCEPT ![i] = RegenReturn(@, TRUE)]
            /\ UNCHANGED status
    /\ UNCHANGED <<alive, tasks, aliasRows, nextTaskId, submissions, gen, sub, polls, edits>>

RegenSetError(i) == \E redisOk \in BOOLEAN : RegenSetErrorWith(i, redisOk)

\* processTaskAsync: SetTaskStatus(Done) after the update
RegenSetDone(i) ==
    /\ alive
    /\ regen[i].pc = "setdone"
    /\ \E redisOk \in BOOLEAN :
         IF redisOk
         THEN /\ SetTaskStatus(regen[i].alias, TaskStatus("Done", regen[i].code, ""))
              /\ regen' = [regen EXCEPT ![i] = RegenReturn(@, FALSE)]
         ELSE /\ regen' = [regen EXCEPT ![i] = RegenReturn(@, TRUE)]
              /\ UNCHANGED status
    /\ UNCHANGED <<alive, tasks, aliasRows, nextTaskId, submissions, gen, sub, polls, edits>>

(***************************************************************************)
(* Visibility change (edit_task.ChangeAccess).                             *)
(***************************************************************************)
\* the alias comes from the path and the flag from the body; the task is
\* looked up, then UpdateTaskPublicStatus
\* getOk, updOk: the queries of GetTaskDetailsByAlias and
\* UpdateTaskPublicStatus succeed
ChangeAccessWith(a, public, getOk, updOk) ==
    /\ alive
    /\ Issued < MaxRequests
    /\ LET found == GetTaskDetailsByAlias(a)
       IN IF ~getOk \/ found = {}
          THEN /\ edits' = Append(edits, [alias |-> a, code |-> "404"])
               /\ UNCHANGED tasks
          ELSE IF ~updOk
          THEN /\ edits' = Append(edits, [alias |-> a, code |-> "500"])
               /\ UNCHANGED tasks
          ELSE /\ \E t \in found : tasks' = UpdateTaskPublicStatus(t.id, public)
               /\ edits' = Append(edits, [alias |-> a, code |-> "200"])
    /\ UNCHANGED <<alive, aliasRows, nextTaskId, submissions, status, gen, regen, sub, polls>>

ChangeAccess ==
    \E a \in Aliases, public \in BOOLEAN, getOk \in BOOLEAN, updOk \in BOOLEAN :
      ChangeAccessWith(a, public, getOk, updOk)

(***************************************************************************)
(* Grading: the collaborator's verdicts.                                   *)
(***************************************************************************)
NoVerdict == [status |-> "", hints |-> <<>>, score |-> 0, notes |-> <<>>]
Hint(n, m) == [index |-> n, message |-> m]
\* skips_check.LLMResponse: status and {index, message} hints
SkipsVerdicts ==
    {[status |-> "ok", hints |-> <<>>, score |-> 0, notes |-> <<>>],
     [status |-> "wrong", hints |-> <<>>, score |-> 0, notes |-> <<>>],
     [status |-> "wrong", hints |-> <<Hint(1, "m1"), Hint(0, "m0")>>, score |-> 0,
      notes |-> <<>>]}
\* noises_check.LLMResponse: score and hints
NoisesVerdicts ==
    {[status |-> "", hints |-> <<>>, score |-> 100, notes |-> <<>>],
     [status |-> "", hints |-> <<>>, score |-> 99, notes |-> <<>>],
     [status |-> "", hints |-> <<>>, score |-> 40, notes |-> <<"n1", "n0">>]}

VerdictTexts(kind) ==
    [fence : BOOLEAN,
     body : {[kind |-> "garbage", verdict |-> NoVerdict]}
            \cup {[kind |-> "json", verdict |-> v]
                    : v \in IF kind = "skips" THEN SkipsVerdicts ELSE NoisesVerdicts}]
VerdictReplies(kind) ==
    {[ok |-> FALSE, text |-> [fence |-> FALSE,
                              body |-> [kind |-> "garbage", verdict |-> NoVerdict]]]}
    \cup {[ok |-> TRUE, text |-> t] : t \in VerdictTexts(kind)}

\* json.Unmarshal into an LLMResponse; on an error the caller gets &LLMResponse{}
UnmarshalVerdict(text) ==
    IF text.fence \/ text.body.kind # "json"
    THEN [ok |-> FALSE, verdict |-> NoVerdict]
    ELSE [ok |-> TRUE, verdict |-> text.body.verdict]

\* the hint numbered from one
RenderHintOneBased(h) == ToString(h.index + 1) \o "'th skip: " \o h.message

\* strconv.Itoa(index) + "'th skip: " + message
RenderHint(h) == ToString(h.index) \o "'th skip: " \o h.message

\* the loop that turns the verdict's hints into strings, in order
RenderHints(hints) == [k \in 1..Len(hints) |-> RenderHint(hints[k])]

\* a nil or empty []string is stored as NULL
HintsVal(hints) == IF Len(hints) = 0 THEN NullArr ELSE ArrVal(hints)

(***************************************************************************)
(* RecordStore: table submissions.                                         *)
(***************************************************************************)
\* a submission row inserted with a final status
PendingRowFailed(id, taskAlias) ==
    [id |-> id, task_alias |-> taskAlias, status |-> "Failed", hints |-> NullArr,
     score |-> NullInt]

\* SavePendingSubmission: status 'Pending', hints NULL, score left to its default
PendingRow(id, taskAlias) ==
    [id |-> id, task_alias |-> taskAlias, status |-> "Pending", hints |-> NullArr,
     score |-> NullInt]

\* UpdateSubmissionStatusToFailed: SET status = 'Failed' WHERE id = $1
UpdateSubmissionStatusToFailed(id) ==
    {IF r.id = id THEN [r EXCEPT !.status = "Failed"] ELSE r : r \in submissions}

\* skips_check: UpdateSubmissionStatusToSuccess(id): SET status = 'Success'
UpdateSubmissionStatusToSuccess(id) ==
    {IF r.id = id THEN [r EXCEPT !.status = "Success"] ELSE r : r \in submissions}

\* noises_check: UpdateSubmissionStatusToSuccess(id, score)
UpdateSubmissionStatusToSuccessScore(id, score) ==
    {IF r.id = id THEN [r EXCEPT !.status = "Success", !.score = IntVal(score)] ELSE r
       : r \in submissions}

\* skips_check: UpdateSubmissionStatusToFailedWithHints(id, hints)
UpdateSubmissionStatusToFailedWithHints(id, hints) ==
    {IF r.id = id THEN [r EXCEPT !.status = "Failed", !.hints = HintsVal(hints)] ELSE r
       : r \in submissions}

\* noises_check: UpdateSubmissionStatusToFailedWithHints(id, hints, score)
UpdateSubmissionStatusToFailedWithHintsScore(id, hints, score) ==
    {IF r.id = id
     THEN [r EXCEPT !.status = "Failed", !.hints = HintsVal(hints), !.score = IntVal(score)]
     ELSE r
       : r \in submissions}

\* GetCodeAnswers: tasks.answers of the task the alias is bound to
GetCodeAnswers(a) == {t.answers : t \in GetTaskDetailsByAlias(a)}

\* GetSavedTaskCode: tasks.taskCode of the task the alias is bound to
GetSavedTaskCode(a) == {t.taskCode : t \in GetTaskDetailsByAlias(a)}

(***************************************************************************)
(* Submission request (skips_check.New, noises_check.New) and its job.     *)
(***************************************************************************)
IdleSub == [pc |-> "idle", kind |-> "skips", alias |-> "", resp |-> "", id |-> 0,
            userAnswers |-> <<>>, correctAnswers |-> <<>>, taskCode |-> "",
            llm |-> NoVerdict, logged |-> FALSE]

SubReturn(g, logged) ==
    [g EXCEPT !.pc = "done", !.userAnswers = <<>>, !.correctAnswers = <<>>,
              !.taskCode = "", !.llm = NoVerdict, !.logged = logged]

\* the answers a client submits: a skips list, or one noises answer
UserAnswers(kind) == IF kind = "skips" THEN {<<"-">>, <<>>, <<"-", "x">>} ELSE {<<"fixed">>}

\* New: CheckAliasExist, SavePendingSubmission, the 200 answer with the
\* submissionId, and the launch of the job
\* k: the handler reached; a: the alias of the request; ua: its answers;
\* checkOk, saveOk: the queries of CheckAliasExist and SavePendingSubmission
\* succeed
SubNewWith(i, k, a, checkOk, saveOk, ua) ==
    /\ alive
    /\ sub[i].pc = "idle"
    /\ i > 1 => sub[i - 1].pc # "idle"
    /\ Issued < MaxRequests
    /\ LET id == Cardinality(submissions) + 1
       IN IF ~checkOk
          THEN /\ sub' = [sub EXCEPT ![i] =
                            [@ EXCEPT !.pc = "done", !.kind = k,
                                      !.resp = IF k = "skips" THEN NotFound
                                               ELSE "500 error while finding task with id"]]
               /\ UNCHANGED submissions
          ELSE IF ~CheckAliasExist(a)
          THEN /\ sub' = [sub EXCEPT ![i] = [@ EXCEPT !.pc = "done", !.kind = k,
                                                      !.resp = NotFound]]
               /\ UNCHANGED submissions
          ELSE IF ~saveOk
          THEN /\ sub' = [sub EXCEPT ![i] = [@ EXCEPT !.pc = "done", !.kind = k,
                                                      !.resp = InternalError]]
               /\ UNCHANGED submissions
          ELSE /\ submissions' = submissions \cup {PendingRow(id, a)}
               /\ sub' = [sub EXCEPT ![i] =
                            [@ EXCEPT !.pc = "answers", !.kind = k, !.alias = a,
                                      !.resp = OK, !.id = id, !.userAnswers = ua]]
    /\ UNCHANGED <<alive, tasks, aliasRows, nextTaskId, status, gen, regen, polls, edits>>

SubNew(i) ==
    \E k \in {"skips", "noises"}, a \in Aliases, checkOk \in BOOLEAN, saveOk \in BOOLEAN :
    \E ua \in UserAnswers(k) :
      SubNewWith(i, k, a, checkOk, saveOk, ua)

\* the fallback going on with the next step when its write is refused
FallbackGoesOn(i, fbOk, next) ==
    /\ submissions' = IF fbOk THEN UpdateSubmissionStatusToFailed(sub[i].id) ELSE submissions
    /\ sub' = [sub EXCEPT ![i] = next]

\* the fallback of processSubmissionAsync after a failed step:
\* UpdateSubmissionStatusToFailed; when that write is refused too the job
\* logs it and returns, otherwise it goes on with the next step
Fallback(i, fbOk, next) ==
    IF fbOk
    THEN /\ submissions' = UpdateSubmissionStatusToFailed(sub[i].id)
         /\ sub' = [sub EXCEPT ![i] = next]
    ELSE /\ sub' = [sub EXCEPT ![i] = SubReturn(@, TRUE)]
         /\ UNCHANGED submissions

\* processSubmissionAsync: GetCodeAnswers
\* dbOk: the query succeeds; fbOk: the RecordStore accepts the fallback write
SubFetchAnswersWith(i, dbOk, fbOk) ==
    /\ alive
    /\ sub[i].pc = "answers"
    /\ IF dbOk /\ GetCodeAnswers(sub[i].alias) # {}
       THEN /\ \E ans \in GetCodeAnswers(sub[i].alias) :
                 sub' = [sub EXCEPT ![i].pc = "code", ![i].correctAnswers = ans]
            /\ UNCHANGED submissions
       ELSE Fallback(i, fbOk, [sub[i] EXCEPT !.pc = "code", !.correctAnswers = <<>>])
    /\ UNCHANGED <<alive, tasks, aliasRows, nextTaskId, status, gen, regen, polls, edits>>

SubFetchAnswers(i) == \E dbOk \in BOOLEAN, fbOk \in BOOLEAN : SubFetchAnswersWith(i, dbOk, fbOk)

\* processSubmissionAsync: GetSavedCode / GetSavedTaskCode
\* dbOk: the query succeeds; fbOk: the RecordStore accepts the fallback write
SubFetchCodeWith(i, dbOk, fbOk) ==
    /\ alive
    /\ sub[i].pc = "code"
    /\ IF dbOk /\ GetSavedTaskCode(sub[i].alias) # {}
       THEN /\ \E c \in GetSavedTaskCode(sub[i].alias) :
                 sub' = [sub EXCEPT ![i].pc = "grade", ![i].taskCode = c]
            /\ UNCHANGED submissions
       ELSE Fallback(i, fbOk, [sub[i] EXCEPT !.pc = "grade", !.taskCode = ""])
    /\ UNCHANGED <<alive, tasks, aliasRows, nextTaskId, status, gen, regen, polls, edits>>

SubFetchCode(i) == \E dbOk \in BOOLEAN, fbOk \in BOOLEAN : SubFetchCodeWith(i, dbOk, fbOk)

\* encodePrompt pairing the answers without comparing the lengths of the lists
encodePromptUnchecked(skipsCode, correctAnswers, userAnswers) ==
    LET n == IF Len(correctAnswers) < Len(userAnswers) THEN Len(correctAnswers)
             ELSE Len(userAnswers)
    IN [err |-> "", skipsCode |-> skipsCode,
        answers |-> [k \in 1..n |-> <<correctAnswers[k], userAnswers[k]>>]]

\* encodePrompt: an error for lists of different lengths; otherwise the task
\* code and the pairs [correct answer, user answer], position by position
encodePrompt(skipsCode, correctAnswers, userAnswers) ==
    IF Len(correctAnswers) # Len(userAnswers)
    THEN [err |-> "length of correctAnswers and userAnswers must be equal",
          skipsCode |-> "", answers |-> <<>>]
    ELSE [err |-> "", skipsCode |-> skipsCode,
          answers |-> [k \in 1..Len(correctAnswers) |-> <<correctAnswers[k], userAnswers[k]>>]]

\* processSubmission of skips_check: encodePrompt refuses lists of different
\* lengths before any call; a failed SendChat ends in log.Fatalf, which
\* exits the process; an answer that does not parse is an error
SkipsProcess(i) ==
    \E fbOk \in BOOLEAN :
      IF encodePrompt(sub[i].taskCode, sub[i].correctAnswers, sub[i].userAnswers).err # ""
      THEN /\ Fallback(i, fbOk, [sub[i] EXCEPT !.pc = "verdict", !.llm = NoVerdict])
           /\ UNCHANGED alive
      ELSE \E reply \in VerdictReplies("skips") :
             IF ~reply.ok
             THEN /\ alive' = FALSE
                  /\ UNCHANGED <<sub, submissions>>
             ELSE LET d == UnmarshalVerdict(CleanLLMResponse(reply.text))
                  IN /\ UNCHANGED alive
                     /\ IF d.ok
                        THEN /\ sub' = [sub EXCEPT ![i].pc = "verdict", ![i].llm = d.verdict]
                             /\ UNCHANGED submissions
                        ELSE Fallback(i, fbOk,
                                      [sub[i] EXCEPT !.pc = "verdict", !.llm = NoVerdict])

\* processSubmission of noises_check, called with correctAnswers[0]: the
\* index panics on an empty list, and the panic ends the process
NoisesProcess(i) ==
    \E fbOk \in BOOLEAN :
      IF Len(sub[i].correctAnswers) = 0
      THEN /\ alive' = FALSE
           /\ UNCHANGED <<sub, submissions>>
      ELSE \E reply \in VerdictReplies("noises") :
             IF ~reply.ok
             THEN /\ alive' = FALSE
                  /\ UNCHANGED <<sub, submissions>>
             ELSE LET d == UnmarshalVerdict(CleanLLMResponse(reply.text))
                  IN /\ UNCHANGED alive
                     /\ IF d.ok
                        THEN /\ sub' = [sub EXCEPT ![i].pc = "verdict", ![i].llm = d.verdict]
                             /\ UNCHANGED submissions
                        ELSE Fallback(i, fbOk,
                                      [sub[i] EXCEPT !.pc = "verdict", !.llm = NoVerdict])

\* processSubmissionAsync: processSubmission and the fallback after its error
SubProcess(i) ==
    /\ alive
    /\ sub[i].pc = "grade"
    /\ IF sub[i].kind = "skips" THEN SkipsProcess(i) ELSE NoisesProcess(i)
    /\ UNCHANGED <<tasks, aliasRows, nextTaskId, status, gen, regen, polls, edits>>

\* the terminal write of skips_check: Success for status "ok", otherwise
\* Failed with the rendered hints
SkipsTerminal(i) ==
    IF sub[i].llm.status = "ok"
    THEN UpdateSubmissionStatusToSuccess(sub[i].id)
    ELSE UpdateSubmissionStatusToFailedWithHints(sub[i].id, RenderHints(sub[i].llm.hints))

\* the terminal write of noises_check with the threshold off by one
NoisesTerminalAbove(i) ==
    IF sub[i].llm.score > 100
    THEN UpdateSubmissionStatusToSuccessScore(sub[i].id, sub[i].llm.score)
    ELSE UpdateSubmissionStatusToFailedWithHintsScore(sub[i].id, sub[i].llm.notes,
                                                      sub[i].llm.score)

\* the terminal write of noises_check: Success for a score of 100 or more,
\* otherwise Failed with the hints and the score
NoisesTerminal(i) ==
    IF sub[i].llm.score >= 100
    THEN UpdateSubmissionStatusToSuccessScore(sub[i].id, sub[i].llm.score)
    ELSE UpdateSubmissionStatusToFailedWithHintsScore(sub[i].id, sub[i].llm.notes,
                                                      sub[i].llm.score)

\* processSubmissionAsync mirroring its terminal write into the StatusCache
SubVerdictCached(i, dbOk, fbOk) ==
    /\ alive
    /\ sub[i].pc = "verdict"
    /\ IF dbOk
       THEN /\ submissions' = IF sub[i].kind = "skips" THEN SkipsTerminal(i)
                              ELSE NoisesTerminal(i)
            /\ sub' = [sub EXCEPT ![i] = SubReturn(@, FALSE)]
       ELSE Fallback(i, fbOk, SubReturn(sub[i], FALSE))
    /\ SetTaskStatus(sub[i].alias, TaskStatus("Done", "", ""))
    /\ UNCHANGED <<alive, tasks, aliasRows, nextTaskId, gen, regen, polls, edits>>

\* processSubmissionAsync: the terminal write, and the fallback when the
\* RecordStore refuses it; the job returns either way
SubVerdictWith(i, dbOk, fbOk) ==
    /\ alive
    /\ sub[i].pc = "verdict"
    /\ IF dbOk
       THEN /\ submissions' = IF sub[i].kind = "skips" THEN SkipsTerminal(i)
                              ELSE NoisesTerminal(i)
            /\ sub' = [sub EXCEPT ![i] = SubReturn(@, FALSE)]
       ELSE Fallback(i, fbOk, SubReturn(sub[i], FALSE))
    /\ UNCHANGED <<alive, tasks, aliasRows, nextTaskId, status, gen, regen, polls, edits>>

SubVerdict(i) == \E dbOk \in BOOLEAN, fbOk \in BOOLEAN : SubVerdictWith(i, dbOk, fbOk)

(***************************************************************************)
(* Polls.                                                                  *)
(***************************************************************************)
\* errors.Is(err, fmt.Errorf(...)): the target is a new error value, and
\* errors.Is compares identities, so no error ever matches it
ErrorsIsNew(err) == FALSE

PollAnswer(about, alias, id, code, st, result, error, hints, score) ==
    [about |-> about, alias |-> alias, id |-> id, code |-> code, status |-> st,
     result |-> result, error |-> error, hints |-> hints, score |-> score]

\* task_status.GetTaskStatus
GetTaskStatus(a, redisOk) ==
    IF ~redisOk THEN PollAnswer("task", a, 0, "500", "", "", "", <<>>, 0)
    ELSE IF status[a] = NoStatus
    THEN IF ErrorsIsNew("task status not found for alias")
         THEN PollAnswer("task", a, 0, "404", "", "", "", <<>>, 0)
         ELSE PollAnswer("task", a, 0, "500", "", "", "", <<>>, 0)
    ELSE PollAnswer("task", a, 0, "200", status[a].status, status[a].result,
                    status[a].error, <<>>, 0)

PollTaskWith(a, redisOk) ==
    /\ alive
    /\ Issued < MaxRequests
    /\ polls' = Append(polls, GetTaskStatus(a, redisOk))
    /\ UNCHANGED <<alive, tasks, aliasRows, nextTaskId, submissions, status, gen, regen, sub, edits>>

PollTask == \E a \in Aliases, redisOk \in BOOLEAN : PollTaskWith(a, redisOk)

\* GetFullSubmissionStatus: SELECT status, COALESCE(hints, '{}'), score;
\* Scan of a NULL score into an int is an error
GetFullSubmissionStatus(id, dbOk) ==
    LET rows == {r \in submissions : r.id = id}
    IN IF ~dbOk THEN [err |-> "failed to get submission status and hints", rows |-> {}]
       ELSE IF rows = {} THEN [err |-> "submission not found", rows |-> {}]
       ELSE IF \E r \in rows : r.score.null
       THEN [err |-> "failed to get submission status and hints", rows |-> {}]
       ELSE [err |-> "", rows |-> rows]

\* submission_status.New
SubmissionStatus(id, dbOk) ==
    LET got == GetFullSubmissionStatus(id, dbOk)
    IN IF got.err = "submission not found" /\ ErrorsIsNew(got.err)
       THEN {PollAnswer("submission", "", id, "404", "", "", "", <<>>, 0)}
       ELSE IF got.err # ""
       THEN {PollAnswer("submission", "", id, "500", "", "", "", <<>>, 0)}
       ELSE {PollAnswer("submission", "", id, "200", r.status, "", "",
                        IF r.hints.null THEN <<>> ELSE r.hints.val, r.score.val)
               : r \in got.rows}

PollSubmissionWith(id, dbOk) ==
    /\ alive
    /\ Issued < MaxRequests
    /\ \E answer \in SubmissionStatus(id, dbOk) :
         polls' = Append(polls, answer)
    /\ UNCHANGED <<alive, tasks, aliasRows, nextTaskId, submissions, status, gen, regen, sub, edits>>

PollSubmission == \E id \in PollIds, dbOk \in BOOLEAN : PollSubmissionWith(id, dbOk)

(***************************************************************************)
(* Specification.                                                          *)
(***************************************************************************)
\* the RecordStore outlives the process: at start it is empty, or it holds
\* the task an earlier skips generation job committed
InitStores ==
    {[tasks |-> {}, aliases |-> {}, nextTaskId |-> 1],
     [tasks |-> {SkipsTaskRow(1, "c1", UserCode, <<"+">>, 0)},
      aliases |-> {[alias |-> "a1", task_id |-> 1]}, nextTaskId |-> 2]}

Init ==
    /\ alive = TRUE
    /\ \E store \in InitStores :
         /\ tasks = store.tasks
         /\ aliasRows = store.aliases
         /\ nextTaskId = store.nextTaskId
    /\ submissions = {}
    /\ status = [a \in Aliases |-> NoStatus]
    /\ gen = [i \in GenIds |-> IdleGen]
    /\ regen = [i \in RegenIds |-> IdleRegen]
    /\ sub = [i \in SubIds |-> IdleSub]
    /\ polls = <<>>
    /\ edits = <<>>

Next ==
    \/ \E i \in GenIds : GenStart(i)
    \/ \E i \in GenIds : GenAlloc(i)
    \/ \E i \in GenIds : GenSetProcessing(i)
    \/ \E i \in GenIds : GenProcess(i)
    \/ \E i \in GenIds : GenSaveInsert(i)
    \/ \E i \in GenIds : GenSaveCommit(i)
    \/ \E i \in GenIds : GenSetError(i)
    \/ \E i \in GenIds : GenSetDone(i)
    \/ \E i \in RegenIds : RegenNew(i)
    \/ \E i \in RegenIds : RegenProcess(i)
    \/ \E i \in RegenIds : RegenUpdate(i)
    \/ \E i \in RegenIds : RegenSetError(i)
    \/ \E i \in RegenIds : RegenSetDone(i)
    \/ \E i \in SubIds : SubNew(i)
    \/ \E i \in SubIds : SubFetchAnswers(i)
    \/ \E i \in SubIds : SubFetchCode(i)
    \/ \E i \in SubIds : SubProcess(i)
    \/ \E i \in SubIds : SubVerdict(i)
    \/ PollTask
    \/ PollSubmission
    \/ ChangeAccess

Spec == Init /\ [][Next]_vars

\* every step of every request and job is taken if it stays possible: the
\* handlers and the goroutines run until they return
FairSpec ==
    /\ Spec
    /\ \A i \in GenIds :
         /\ WF_vars(GenAlloc(i)) /\ WF_vars(GenSetProcessing(i)) /\ WF_vars(GenProcess(i))
         /\ WF_vars(GenSaveInsert(i)) /\ WF_vars(GenSaveCommit(i))
         /\ WF_vars(GenSetError(i)) /\ WF_vars(GenSetDone(i))
    /\ \A i \in RegenIds :
         /\ WF_vars(RegenProcess(i)) /\ WF_vars(RegenUpdate(i))
         /\ WF_vars(RegenSetError(i)) /\ WF_vars(RegenSetDone(i))
    /\ \A i \in SubIds :
         /\ WF_vars(SubFetchAnswers(i)) /\ WF_vars(SubFetchCode(i))
         /\ WF_vars(SubProcess(i)) /\ WF_vars(SubVerdict(i))

(***************************************************************************)
(* Properties.                                                             *)
(***************************************************************************)
\* C1: whenever the StatusCache entry of an alias says Done, the RecordStore
\* holds an alias row for it that is bound to an existing task row: a job
\* writes Done only after its rows are committed.
C1_DoneImpliesTask ==
    \A a \in Aliases :
      status[a].status = "Done" =>
        \E r \in aliasRows : r.alias = a /\ \E t \in tasks : t.id = r.task_id

\* a generation job committed its rows and then wrote Done
C1_Witness ==
    \E i \in GenIds :
      /\ gen[i].pc = "done" /\ gen[i].resp = OK /\ ~gen[i].logged
      /\ status[gen[i].alias].status = "Done"
      /\ GetTaskDetailsByAlias(gen[i].alias) # {}

\* C2: no two rows of table aliases carry the same alias, so no alias is
\* bound to two tasks.
C2_AliasUnique ==
    \A r1 \in aliasRows, r2 \in aliasRows : r1.alias = r2.alias => r1 = r2

\* two jobs were given the same alias; one committed it, the INSERT of the
\* other was refused
C2_Witness ==
    \E i \in GenIds, j \in GenIds :
      /\ i # j
      /\ gen[i].alias = gen[j].alias /\ gen[i].alias # ""
      /\ gen[i].pc \in {"setdone", "done"} /\ gen[i].resp = OK
      /\ CheckAliasExist(gen[i].alias)
      /\ gen[j].pc = "fail"
      /\ gen[j].err = "failed to save task: failed to insert alias"

\* C3: any two generation requests that were answered 200 were answered
\* with different aliases, however their handling interleaves.
C3_DistinctAliases ==
    \A i \in GenIds, j \in GenIds :
      (i # j /\ gen[i].resp = OK /\ gen[j].resp = OK) => gen[i].alias # gen[j].alias

\* C4: once a submission row is Success or Failed no later step changes its
\* status, hints or score.
C4_TerminalIsFinal ==
    [][\A r \in submissions : r.status \in {"Success", "Failed"} => r \in submissions']_vars

\* C5: a poll for a submission whose row is still Pending, with the
\* RecordStore answering, is answered 200 with status Pending.
C5_PendingPollSucceeds ==
    [][\A id \in PollIds :
         (/\ PollSubmissionWith(id, TRUE)
          /\ \E r \in submissions : r.id = id /\ r.status = "Pending")
         => /\ polls'[Len(polls')].code = "200"
            /\ polls'[Len(polls')].status = "Pending"]_vars

\* the collaborator call failed, or returned nothing, or returned text that
\* is no JSON document
BadReply(reply) == ~reply.ok \/ reply.text.body.kind # "json"

\* a failed step of a generation job takes the job to its failure branch
\* with a message, and no step of a job but its successful commit changes
\* the tables
C6_FailureCaught(i) ==
    /\ \A reply \in GenReplies :
         (GenProcessWith(i, reply) /\ BadReply(reply))
         => gen'[i].pc = "fail" /\ gen'[i].err # ""
    /\ (gen[i].pc \in {"insert", "commit"} /\ gen'[i].pc = "fail")
       => gen'[i].err # "" /\ gen'[i].tx = NoTx
    /\ (gen'[i] # gen[i] /\ gen'[i].pc # "setdone")
       => tasks' = tasks /\ aliasRows' = aliasRows

\* the failure branch has stored Error with the failure's message, as JSON
\* encodes it
C6_ErrorStored(i) ==
    /\ status'[gen[i].alias].status = "Error"
    /\ status'[gen[i].alias].error = ToValidUTF8(gen[i].err)
    /\ status'[gen[i].alias].error # ""

\* C6 as stated: a generation job whose collaborator call, parse or
\* persistence step fails writes Error with a non-empty message for its
\* alias and creates no task or alias row.
C6_FailureWritesError ==
    [][\A i \in GenIds :
         /\ C6_FailureCaught(i)
         /\ (gen[i].pc = "fail" /\ gen'[i].pc = "done") => C6_ErrorStored(i)]_vars

\* C6, amended: the same, provided the StatusCache accepts the Error write.
C6_FailureWritesErrorIfAccepted ==
    [][\A i \in GenIds :
         /\ C6_FailureCaught(i)
         /\ GenSetErrorWith(i, TRUE) => C6_ErrorStored(i)]_vars

\* a job whose answer did not parse has stored Error, and the tables are as
\* they were at the start
C6_Witness ==
    \E i \in GenIds :
      /\ gen[i].pc = "done" /\ gen[i].resp = OK /\ ~gen[i].logged
      /\ status[gen[i].alias] = TaskStatus("Error", "", "failed to decode request: syntax")
      /\ ~CheckAliasExist(gen[i].alias)

\* C7: the task row and the alias row of a generation job become visible
\* together or not at all: every task row has an alias row bound to it, and
\* every alias row is bound to a task row.
C7_TaskAndAliasTogether ==
    /\ \A t \in tasks : \E r \in aliasRows : r.task_id = t.id
    /\ \A r \in aliasRows : \E t \in tasks : t.id = r.task_id

\* a transaction was rolled back after its INSERT INTO tasks had succeeded
C7_Witness ==
    \E i \in GenIds :
      /\ gen[i].pc = "fail"
      /\ gen[i].err \in {"failed to save task: failed to insert alias",
                         "failed to save task: failed to commit transaction"}

AllTaken == \A a \in Aliases : CheckAliasExist(a)

\* C8: when every alias is bound already, the allocation loop of a request
\* comes to an end.
C8_AllocationEnds ==
    \A i \in GenIds :
      [](AllTaken /\ gen[i].pc = "alloc" => <>(gen[i].pc # "alloc" \/ ~alive))

\* C9: when CheckAliasExist fails the request is answered with that error
\* at once: no StatusCache entry is written, no row is written, and the
\* request takes no further step, so the alias is not checked again and no
\* job is launched.
C9_CheckErrorStops ==
    [][\A i \in GenIds :
         /\ \A a \in Aliases :
              GenAllocWith(i, a, FALSE)
              => /\ gen'[i].resp = CheckFailed /\ gen'[i].pc = "done"
                 /\ status' = status /\ tasks' = tasks /\ aliasRows' = aliasRows
         /\ gen[i].resp = CheckFailed => gen'[i] = gen[i]]_vars

\* a request was answered with the error of the existence check while another
\* request went on
C9_Witness ==
    \E i \in GenIds, j \in GenIds :
      /\ gen[i].resp = CheckFailed /\ gen[i].pc = "done"
      /\ gen[j].alias # "" /\ status[gen[j].alias].status = "Processing"

\* what the hints of a verdict read as: "<index>'th skip: <message>"
ExpectedHints(hints) ==
    IF hints = <<>> THEN <<>>
    ELSE IF hints = <<Hint(1, "m1"), Hint(0, "m0")>>
    THEN <<"1'th skip: m1", "0'th skip: m0">>
    ELSE <<"unexpected">>

\* the row of submission job i after the step shows the verdict the job holds
C10_VerdictStored(i) ==
    \E r \in submissions' :
      /\ r.id = sub[i].id
      /\ r.status = IF sub[i].llm.status = "ok" THEN "Success" ELSE "Failed"
      /\ sub[i].llm.status # "ok"
         => (IF r.hints.null THEN <<>> ELSE r.hints.val) = ExpectedHints(sub[i].llm.hints)

\* C10 as stated: a skips submission whose verdict is "ok" ends Success; with
\* any other verdict it ends Failed with one hint per hint of the verdict,
\* in order, each rendered "<index>'th skip: <message>".
C10_SkipsVerdict ==
    [][\A i \in SubIds :
         (/\ sub[i].kind = "skips" /\ sub[i].llm \in SkipsVerdicts
          /\ sub[i].pc = "verdict" /\ sub'[i].pc = "done")
         => C10_VerdictStored(i)]_vars

\* C10, amended: the same, provided the RecordStore accepts the terminal write.
C10_SkipsVerdictIfAccepted ==
    [][\A i \in SubIds, fbOk \in BOOLEAN :
         (/\ sub[i].kind = "skips" /\ sub[i].llm \in SkipsVerdicts
          /\ SubVerdictWith(i, TRUE, fbOk))
         => C10_VerdictStored(i)]_vars

\* a skips submission ended Failed with the two hints of its verdict
C10_Witness ==
    \E i \in SubIds, r \in submissions :
      /\ sub[i].kind = "skips" /\ sub[i].pc = "done" /\ r.id = sub[i].id
      /\ r.status = "Failed"
      /\ r.hints = ArrVal(<<"1'th skip: m1", "0'th skip: m0">>)

\* the row of noises submission job i after the step shows the score the job
\* holds: Success from 100 on, below that Failed with the verdict's hints,
\* which read as a list, and the verdict's score
C11_ScoreStored(i) ==
    \E r \in submissions' :
      /\ r.id = sub[i].id
      /\ r.status = IF sub[i].llm.score >= 100 THEN "Success" ELSE "Failed"
      /\ sub[i].llm.score < 100
         => /\ (IF r.hints.null THEN <<>> ELSE r.hints.val) = sub[i].llm.notes
            /\ r.score = IntVal(sub[i].llm.score)

\* C11 as stated: a noises submission whose verdict scores 100 or more ends
\* Success; with a lower score it ends Failed with the verdict's hints and
\* the verdict's score.
C11_NoisesVerdict ==
    [][\A i \in SubIds :
         (/\ sub[i].kind = "noises" /\ sub[i].llm \in NoisesVerdicts
          /\ sub[i].pc = "verdict" /\ sub'[i].pc = "done")
         => C11_ScoreStored(i)]_vars

\* C11, amended: the same, provided the RecordStore accepts the terminal write.
C11_NoisesVerdictIfAccepted ==
    [][\A i \in SubIds, fbOk \in BOOLEAN :
         (/\ sub[i].kind = "noises" /\ sub[i].llm \in NoisesVerdicts
          /\ SubVerdictWith(i, TRUE, fbOk))
         => C11_ScoreStored(i)]_vars

\* a noises submission ended Failed with the two hints and the score 40 of
\* its verdict
C11_Witness ==
    \E i \in SubIds, r \in submissions :
      /\ sub[i].kind = "noises" /\ sub[i].pc = "done" /\ r.id = sub[i].id
      /\ r.status = "Failed"
      /\ r.hints = ArrVal(<<"n1", "n0">>)
      /\ r.score = IntVal(40)

\* a step of submission job i has failed and the fallback write was accepted:
\* the job is still running and its row is Failed already
C12_FellBack(i) ==
    /\ sub[i].pc \in {"code", "grade", "verdict"}
    /\ \E r \in submissions : r.id = sub[i].id /\ r.status = "Failed"

C12_FailedNoHints(i) ==
    \E r \in submissions :
      r.id = sub[i].id /\ r.status = "Failed" /\ (r.hints.null \/ r.hints.val = <<>>)

\* C12: when a fetch or the collaborator call of a submission job has failed
\* and the fallback write was accepted, the job ends with its submission
\* Failed and without hints.
C12_FallbackIsFinal ==
    \A i \in SubIds :
      [](C12_FellBack(i) => [](sub[i].pc = "done" => C12_FailedNoHints(i)))

\* C13: a generation-status poll for an alias without an entry in the
\* StatusCache is answered 404; a poll for an alias with an entry is answered
\* 200 with the status, result and error of the entry.
C13_TaskPollAnswers ==
    [][\A a \in Aliases :
         PollTaskWith(a, TRUE)
         => LET answer == polls'[Len(polls')]
            IN IF status[a] = NoStatus
               THEN answer.code = "404"
               ELSE /\ answer.code = "200"
                    /\ answer.status = status[a].status
                    /\ answer.result = status[a].result
                    /\ answer.error = status[a].error]_vars

\* C14: a submission-status poll for an id without a row in the RecordStore
\* is answered 404.
C14_UnknownSubmissionPoll ==
    [][\A id \in PollIds :
         (PollSubmissionWith(id, TRUE) /\ ~\E r \in submissions : r.id = id)
         => polls'[Len(polls')].code = "404"]_vars

\* the step is submission request i for alias a, handled with the given
\* answers of the RecordStore
C15_Request(i, a, checkOk, saveOk) ==
    \E k \in {"skips", "noises"} : \E ua \in UserAnswers(k) :
      SubNewWith(i, k, a, checkOk, saveOk, ua)

\* the request was refused with 404: no row is written and no job runs
C15_Refused(i) ==
    /\ sub'[i].resp = NotFound /\ sub'[i].pc = "done"
    /\ submissions' = submissions

\* the request was accepted: one row, Pending, whose id the answer carries
C15_Accepted(i, a) ==
    /\ sub'[i].resp = OK
    /\ Cardinality(submissions') = Cardinality(submissions) + 1
    /\ \E r \in submissions' \ submissions :
         /\ r.id = sub'[i].id /\ r.task_alias = a /\ r.status = "Pending"
         /\ \A q \in submissions : q.id # r.id

\* C15 as stated: a submission request for an alias without a row is
\* answered 404, writes no row and launches no job; a request for an alias
\* with a row creates exactly one Pending row and returns its id.
C15_SubmissionRequest ==
    [][\A i \in SubIds, a \in Aliases, checkOk \in BOOLEAN, saveOk \in BOOLEAN :
         C15_Request(i, a, checkOk, saveOk)
         => IF \E r \in aliasRows : r.alias = a THEN C15_Accepted(i, a)
            ELSE C15_Refused(i)]_vars

\* C15, amended: the same, provided the RecordStore answers the existence
\* check and accepts the INSERT.
C15_SubmissionRequestIfAnswered ==
    [][\A i \in SubIds, a \in Aliases :
         C15_Request(i, a, TRUE, TRUE)
         => IF \E r \in aliasRows : r.alias = a THEN C15_Accepted(i, a)
            ELSE C15_Refused(i)]_vars

\* one request was refused for an alias without a row, another was accepted
C15_Witness ==
    \E i \in SubIds, j \in SubIds :
      /\ sub[i].resp = NotFound /\ sub[i].pc = "done"
      /\ sub[j].resp = OK /\ \E r \in submissions : r.id = sub[j].id

\* C16 as stated: the entry of an alias is created with Processing, and once
\* it holds Done or Error it is never written again, so it is overwritten at
\* most twice and never returns to Processing.
C16_EntryLifetime ==
    [][\A a \in Aliases :
         /\ (status[a] = NoStatus /\ status'[a] # NoStatus)
            => status'[a].status = "Processing"
         /\ status[a].status \in {"Done", "Error"} => status'[a] = status[a]]_vars

\* the step is the handler of a generation or regeneration run writing
\* Processing for alias a as it launches the job
C16_HandlerWrite(a) ==
    /\ status'[a] = TaskStatus("Processing", "", "")
    /\ \/ \E i \in GenIds :
            gen[i].pc = "setproc" /\ gen'[i].pc = "process" /\ gen[i].alias = a
       \/ \E i \in RegenIds :
            regen[i].pc = "idle" /\ regen'[i].pc = "process" /\ regen'[i].alias = a

\* the step is the job of a run writing Done or Error for its alias a and
\* returning
C16_JobWrite(a) ==
    /\ status'[a].status \in {"Done", "Error"}
    /\ \/ \E i \in GenIds :
            gen[i].pc \in {"fail", "setdone"} /\ gen'[i].pc = "done" /\ gen[i].alias = a
       \/ \E i \in RegenIds :
            /\ regen[i].pc \in {"fail", "setdone"} /\ regen'[i].pc = "done"
            /\ regen[i].alias = a

\* C16, amended: per run.  Every write to the StatusCache is the Processing
\* write of a run's handler or the one terminal write of a run's job, made as
\* the job returns; a launched job never goes back to its handler and a job
\* that has returned takes no further step.
C16_RunWrites ==
    [][/\ status' # status
          => \E a \in Aliases :
               /\ \A b \in Aliases \ {a} : status'[b] = status[b]
               /\ C16_HandlerWrite(a) \/ C16_JobWrite(a)
       /\ \A i \in GenIds :
            /\ gen[i].pc = "done" => gen'[i] = gen[i]
            /\ gen[i].pc \in {"process", "insert", "commit", "fail", "setdone"}
               => gen'[i].pc \in {"process", "insert", "commit", "fail", "setdone", "done"}
       /\ \A i \in RegenIds :
            /\ regen[i].pc = "done" => regen'[i] = regen[i]
            /\ regen[i].pc \in {"process", "update", "fail", "setdone"}
               => regen'[i].pc \in {"process", "update", "fail", "setdone", "done"}]_vars

\* a regeneration run has written its terminal value over the entry of a
\* task that existed before
C16_Witness ==
    \E i \in RegenIds :
      /\ regen[i].pc = "done" /\ regen[i].resp = OK /\ ~regen[i].logged
      /\ status[regen[i].alias].status \in {"Done", "Error"}

\* generation job i has returned after its terminal write, or after logging
\* that the StatusCache refused it
C17_Finished(i) ==
    /\ gen[i].pc = "done" /\ gen[i].resp = OK
    /\ gen[i].logged \/ status[gen[i].alias].status \in {"Done", "Error"}

\* C17: every launched generation job eventually makes its terminal write
\* (Done or Error), unless the StatusCache refuses the write.
C17_GenerationTerminates ==
    \A i \in GenIds :
      [](gen[i].pc = "process" => <>C17_Finished(i))

\* submission job i has returned with its row Success or Failed, or after
\* logging that the RecordStore refused the write
C18_Finished(i) ==
    /\ sub[i].pc = "done"
    /\ \/ sub[i].logged
       \/ \E r \in submissions : r.id = sub[i].id /\ r.status \in {"Success", "Failed"}

\* C18: every launched submission job eventually moves its submission from
\* Pending to Success or Failed, unless the RecordStore refuses the writes.
C18_GradingTerminates ==
    \A i \in SubIds :
      [](sub[i].pc = "answers" => <>C18_Finished(i))

\* the step belongs to a handler: a generation request before its job is
\* launched, a regeneration or submission request, or a poll
C19_HandlerStep ==
    \/ \E i \in GenIds : gen[i].pc \in {"idle", "alloc", "setproc"} /\ gen'[i] # gen[i]
    \/ \E i \in RegenIds : regen[i].pc = "idle" /\ regen'[i] # regen[i]
    \/ \E i \in SubIds : sub[i].pc = "idle" /\ sub'[i] # sub[i]
    \/ polls' # polls

\* the step belongs to the job that was launched for alias a
C19_JobStepFor(a) ==
    \/ \E i \in GenIds :
         /\ gen[i].pc \in {"process", "insert", "commit", "fail", "setdone"}
         /\ gen[i].alias = a /\ gen'[i] # gen[i]
    \/ \E i \in RegenIds :
         /\ regen[i].pc \in {"process", "update", "fail", "setdone"}
         /\ regen[i].alias = a /\ regen'[i] # regen[i]

\* C19: handlers write only Processing to the StatusCache and only Pending
\* rows to the RecordStore; Done and Error are written only by a job launched
\* for that alias, Success and Failed only by the job launched for that
\* submission.
C19_OnlyJobsWriteFinal ==
    [][/\ \A a \in Aliases :
            (status'[a] # status[a] /\ status'[a].status \in {"Done", "Error"})
            => C19_JobStepFor(a)
       /\ \A r \in submissions' :
            (r \notin submissions /\ r.status \in {"Success", "Failed"})
            => \E i \in SubIds :
                 /\ sub[i].pc \in {"answers", "code", "grade", "verdict"}
                 /\ sub[i].id = r.id /\ sub'[i] # sub[i]
       /\ C19_HandlerStep
          => /\ \A a \in Aliases :
                  status'[a] = status[a] \/ status'[a] = TaskStatus("Processing", "", "")
             /\ submissions \subseteq submissions'
             /\ \A r \in submissions' \ submissions : r.status = "Pending"
             /\ tasks' = tasks /\ aliasRows' = aliasRows]_vars

\* a submission job has written Success for the row its handler inserted
C19_Witness ==
    \E i \in SubIds, r \in submissions :
      sub[i].pc = "done" /\ sub[i].resp = OK /\ r.id = sub[i].id /\ r.status = "Success"

\* C20: an accepted generation or submission request is answered before the
\* collaborator call of its job, with OK and the alias or the submission id;
\* no later step changes the answer, whatever the outcome of the job.
C20_AnswerBeforeJob ==
    [][/\ \A i \in GenIds :
            /\ gen'[i].pc \in {"process", "insert", "commit", "fail", "setdone"}
               => gen'[i].resp = OK /\ gen'[i].alias \in Aliases
            /\ gen[i].resp # ""
               => gen'[i].resp = gen[i].resp /\ gen'[i].alias = gen[i].alias
       /\ \A i \in SubIds :
            /\ sub'[i].pc \in {"answers", "code", "grade", "verdict"}
               => /\ sub'[i].resp = OK
                  /\ \E r \in submissions' : r.id = sub'[i].id
            /\ sub[i].resp # ""
               => sub'[i].resp = sub[i].resp /\ sub'[i].id = sub[i].id]_vars

\* a generation job ended in Error and a submission job ended in Failed; both
\* requests had been answered OK
C20_Witness ==
    \E i \in GenIds, j \in SubIds, r \in submissions :
      /\ gen[i].pc = "done" /\ gen[i].resp = OK
      /\ status[gen[i].alias].status = "Error"
      /\ sub[j].pc = "done" /\ sub[j].resp = OK
      /\ r.id = sub[j].id /\ r.status = "Failed"

\* the task row t was created by the noises generation request i, the only
\* request that was given its alias
C21_NoisesTask(t) ==
    \E i \in GenIds :
      /\ gen[i].kind = "noises" /\ gen[i].resp = OK
      /\ \A j \in GenIds \ {i} : gen[j].alias # gen[i].alias
      /\ \E r \in aliasRows : r.alias = gen[i].alias /\ r.task_id = t.id

C22_SkipsAnswerCount ==
    \A i \in GenIds :
      (/\ gen[i].kind = "skips" /\ gen[i].pc = "setdone"
       /\ \A j \in RegenIds : regen[j].alias # gen[i].alias)
      => \A t \in GetTaskDetailsByAlias(gen[i].alias) : Len(t.answers) = gen[i].number

\* C23: a task row, once created, stays in table tasks and is changed by
\* two operations only: the visibility change, which changes the public flag
\* and nothing else, and the update of a regeneration job, which replaces
\* task code and answers in one write and nothing else; id, type, original
\* code and creation timestamp never change.
C23_TaskFrame ==
    [][\A t \in tasks :
         \E u \in tasks' :
           /\ u.id = t.id /\ u.type = t.type
           /\ u.userOriginalCode = t.userOriginalCode
           /\ u.created_at = t.created_at
           /\ \/ u = t
              \/ ChangeAccess /\ u = [t EXCEPT !.public = u.public]
              \/ /\ \E i \in RegenIds : RegenUpdate(i)
                 /\ u = [t EXCEPT !.taskCode = u.taskCode, !.answers = u.answers]]_vars

\* C24: the collaborator client returns an error whenever the status is not
\* success, or the answer has no choice, or the text of the answer is empty,
\* and a text otherwise: a generation job whose call got such an answer
\* fails with the error of the call, and with no such error otherwise.
C24_SendChatErrors ==
    [][\A i \in GenIds, h \in HttpResponses :
         GenProcessWith(i, SendChat(h))
         => (gen'[i].err \in {"failed to send request: " \o e.err
                                : e \in {SendError, SendErrorRaw}}
             <=> \/ h.status # 200
                 \/ Len(h.choices) = 0
                 \/ h.choices[1] = EmptyText)]_vars

\* C25: a generation request that was answered 200 with alias a has its
\* entry in the StatusCache from then on, so a poll for a that the cache
\* answers finds an entry; when the write of Processing is refused the
\* request is answered with an internal error, nothing is written and no
\* job is launched.
C25_ProcessingBeforeAnswer ==
    [][/\ \A i \in GenIds :
            gen'[i].resp = OK => status'[gen'[i].alias] # NoStatus
       /\ \A i \in GenIds, a \in Aliases :
            (gen[i].resp = OK /\ gen[i].alias = a /\ PollTaskWith(a, TRUE))
            => LET answer == polls'[Len(polls')]
               IN /\ answer.code = "200"
                  /\ answer.status \in {"Processing", "Done", "Error"}
       /\ \A i \in GenIds :
            GenSetProcessingWith(i, FALSE)
            => /\ gen'[i].resp = InternalError /\ gen'[i].pc = "done"
               /\ status' = status]_vars

\* a poll found the entry of an alias whose generation request had been
\* answered 200
C25_Witness ==
    \E i \in GenIds, k \in 1..Len(polls) :
      /\ gen[i].resp = OK
      /\ polls[k].about = "task" /\ polls[k].alias = gen[i].alias
      /\ polls[k].code = "200"

\* C26: the allocation loop is left with a candidate only in a round whose
\* existence check reported that candidate absent; a candidate reported
\* present is discarded and the loop goes round again, and no request gets
\* its alias in any other step.
C26_AllocationChecked ==
    [][/\ \A i \in GenIds, a \in Aliases :
            GenAllocWith(i, a, TRUE)
            => IF CheckAliasExist(a)
               THEN gen'[i].pc = "alloc" /\ gen'[i].resp = ""
               ELSE gen'[i].pc = "setproc" /\ gen'[i].alias = a
       /\ \A i \in GenIds :
            (gen[i].pc # "setproc" /\ gen'[i].pc = "setproc")
            => \E a \in Aliases :
                 /\ GenAllocWith(i, a, TRUE)
                 /\ ~CheckAliasExist(a)
                 /\ gen'[i].alias = a]_vars

\* one request left the loop with a candidate that was absent and was
\* answered; another is still in the loop after a round that discarded a
\* candidate the RecordStore holds
C26_Witness ==
    \E i \in GenIds, j \in GenIds :
      /\ gen[i].resp = OK /\ gen[i].alias \in Aliases
      /\ gen[j].pc = "alloc" /\ gen[j].alias \in Aliases
      /\ CheckAliasExist(gen[j].alias)

\* C27: when the write that records a failure is refused (the Error write
\* of a generation or regeneration job, the fallback write of Failed of a
\* submission job), the job ends in that step and writes nothing: the alias
\* status and the submission row stay as they were, and a job that has
\* ended takes no further step.
C27_LoggedOnly ==
    [][/\ \A i \in GenIds :
            GenSetErrorWith(i, FALSE)
            => /\ gen'[i].pc = "done" /\ gen'[i].logged
               /\ status' = status /\ tasks' = tasks /\ aliasRows' = aliasRows
       /\ \A i \in RegenIds :
            RegenSetErrorWith(i, FALSE)
            => /\ regen'[i].pc = "done" /\ regen'[i].logged
               /\ status' = status /\ tasks' = tasks
       /\ \A i \in SubIds :
            \/ SubFetchAnswersWith(i, FALSE, FALSE)
            \/ SubFetchCodeWith(i, FALSE, FALSE)
            \/ SubVerdictWith(i, FALSE, FALSE)
            \/ ~sub[i].logged /\ sub'[i].logged
            => /\ sub'[i].pc = "done" /\ sub'[i].logged
               /\ submissions' = submissions
       /\ \A i \in GenIds : gen[i].pc = "done" => gen'[i] = gen[i]
       /\ \A i \in RegenIds : regen[i].pc = "done" => regen'[i] = regen[i]
       /\ \A i \in SubIds : sub[i].pc = "done" => sub'[i] = sub[i]]_vars

\* a generation job ended on a refused Error write with its alias still
\* Processing, and a submission job ended on a refused fallback write with
\* its row still Pending
C27_Witness ==
    \E i \in GenIds, j \in SubIds, r \in submissions :
      /\ gen[i].pc = "done" /\ gen[i].resp = OK /\ gen[i].logged
      /\ GetTaskDetailsByAlias(gen[i].alias) = {}
      /\ status[gen[i].alias].status = "Processing"
      /\ sub[j].pc = "done" /\ sub[j].logged
      /\ r.id = sub[j].id /\ r.status = "Pending"

\* C28: the persistence step of a generation job commits a task whose code
\* is the code the job holds, bound to the job's alias; when the job then
\* writes Done for its alias, the result of that write is that code and the
\* error is empty.
C28_DoneCarriesCode ==
    [][\A i \in GenIds :
         /\ (gen[i].pc = "commit" /\ gen'[i].pc = "setdone")
            => \E t \in tasks' \ tasks :
                 /\ t.taskCode = gen'[i].code
                 /\ \E r \in aliasRows' : r.alias = gen'[i].alias /\ r.task_id = t.id
         /\ (gen[i].pc = "setdone" /\ gen'[i] # gen[i])
            => \/ status' = status /\ gen'[i].logged
               \/ status' = [status EXCEPT ![gen[i].alias] =
                                             TaskStatus("Done", gen[i].code, "")]]_vars

\* a generation job wrote Done, and the result is the code of the task its
\* alias is bound to
C28_Witness ==
    \E i \in GenIds :
      /\ gen[i].pc = "done" /\ gen[i].resp = OK /\ ~gen[i].logged
      /\ status[gen[i].alias].status = "Done"
      /\ \E t \in GetTaskDetailsByAlias(gen[i].alias) :
           t.taskCode = status[gen[i].alias].result /\ t.taskCode # ""

\* C29: a job calls the collaborator in one step of its run only: the step
\* that makes the call, whether the call fails or not, takes the job past
\* it (or ends the process), and no later step of the job comes back to it.
C29_OneCall ==
    [][/\ \A i \in GenIds :
            /\ (gen[i].pc = "process" /\ gen'[i] # gen[i]) => gen'[i].pc \in {"fail", "insert"}
            /\ gen[i].pc \in {"insert", "commit", "fail", "setdone", "done"}
               => gen'[i].pc # "process"
            /\ GenProcessWith(i, SendError)
               => gen'[i].pc = "fail" /\ gen'[i].err = "failed to send request: upstream"
       /\ \A i \in RegenIds :
            /\ (regen[i].pc = "process" /\ regen'[i] # regen[i])
               => regen'[i].pc \in {"fail", "update"}
            /\ regen[i].pc \in {"update", "fail", "setdone", "done"}
               => regen'[i].pc # "process"
       /\ \A i \in SubIds :
            /\ (sub[i].pc = "grade" /\ SubProcess(i))
               => sub'[i].pc \in {"verdict", "done"} \/ ~alive'
            /\ sub[i].pc \in {"verdict", "done"} => sub'[i].pc # "grade"]_vars

\* a generation job whose one call failed ended with the Error of that call
C29_Witness ==
    \E i \in GenIds :
      /\ gen[i].pc = "done" /\ gen[i].resp = OK /\ ~gen[i].logged
      /\ status[gen[i].alias] = TaskStatus("Error", "", "failed to send request: upstream")

\* the sets the step makes with success: pairs of an alias and the blob handed
\* to SetTaskStatus
C30_Sets ==
    {<<gen[i].alias, TaskStatus("Processing", "", "")>>
       : i \in {j \in GenIds : GenSetProcessingWith(j, TRUE)}}
    \cup {<<gen[i].alias, TaskStatus("Error", "", gen[i].err)>>
            : i \in {j \in GenIds : GenSetErrorWith(j, TRUE)}}
    \cup {<<gen[i].alias, TaskStatus("Done", gen[i].code, "")>>
            : i \in {j \in GenIds : GenSetDone(j) /\ ~gen'[j].logged}}
    \cup {<<regen'[i].alias, TaskStatus("Processing", "", "")>>
            : i \in {j \in RegenIds : RegenNew(j) /\ regen'[j].pc = "process"}}
    \cup {<<regen[i].alias, TaskStatus("Error", "", regen[i].err)>>
            : i \in {j \in RegenIds : RegenSetErrorWith(j, TRUE)}}
    \cup {<<regen[i].alias, TaskStatus("Done", regen[i].code, "")>>
            : i \in {j \in RegenIds : RegenSetDone(j) /\ ~regen'[j].logged}}

\* C30: a get of an alias for which no set has succeeded finds nothing;
\* after a successful set(a, blob) the entry of a is exactly the status,
\* result and error of blob, whatever the entry was before, and the entry of
\* every other alias is unchanged; nothing but a successful set changes an
\* entry, and a poll that the cache answers reports the entry as it is.
C30_RoundTrip ==
    [][/\ \A w \in C30_Sets :
            /\ status'[w[1]] = w[2]
            /\ \A b \in Aliases \ {w[1]} : status'[b] = status[b]
       /\ C30_Sets = {} => status' = status
       /\ \A a \in Aliases :
            PollTaskWith(a, TRUE)
            => LET answer == polls'[Len(polls')]
               IN IF status[a] = NoStatus THEN answer.code # "200"
                  ELSE /\ answer.code = "200"
                       /\ answer.status = status[a].status
                       /\ answer.result = status[a].result
                       /\ answer.error = status[a].error]_vars

\* C31: no step of a submission request, of a submission job or of a
\* submission poll changes the StatusCache, and the answer of a submission
\* poll is made from the row of the RecordStore alone: a 200 answer carries
\* the status, hints and score of the row with that id.
C31_SubmissionsBypassCache ==
    [][/\ (sub' # sub \/ submissions' # submissions) => status' = status
       /\ \A i \in SubIds :
            (SubNew(i) \/ SubFetchAnswers(i) \/ SubFetchCode(i) \/ SubProcess(i)
             \/ SubVerdict(i))
            => status' = status
       /\ \A id \in PollIds, dbOk \in BOOLEAN :
            PollSubmissionWith(id, dbOk)
            => /\ status' = status
               /\ LET answer == polls'[Len(polls')]
                  IN answer.code = "200"
                     => \E r \in submissions :
                          /\ r.id = id /\ answer.status = r.status
                          /\ answer.hints = (IF r.hints.null THEN <<>> ELSE r.hints.val)
                          /\ answer.score = r.score.val]_vars

\* a submission job ran to its terminal write and a poll reported the row,
\* while the StatusCache holds no entry at all
C31_Witness ==
    \E i \in SubIds, k \in 1..Len(polls), r \in submissions :
      /\ sub[i].pc = "done" /\ sub[i].resp = OK /\ r.id = sub[i].id
      /\ polls[k].about = "submission" /\ polls[k].id = r.id
      /\ polls[k].code = "200" /\ polls[k].status = r.status
      /\ \A a \in Aliases : status[a] = NoStatus

\* the row of submission job i after the step is Failed
C32_RowFailed(i) == \E r \in submissions' : r.id = sub[i].id /\ r.status = "Failed"

\* the step is the grading step of skips submission job i
C32_Grading(i) == sub[i].kind = "skips" /\ sub[i].pc = "grade" /\ SubProcess(i)

\* the prompt of job i pairs the canonical answer with the submitted answer
\* at every position, and carries the task code
C32_Paired(i) ==
    LET p == encodePrompt(sub[i].taskCode, sub[i].correctAnswers, sub[i].userAnswers)
    IN /\ p.err = "" /\ p.skipsCode = sub[i].taskCode
       /\ Len(p.answers) = Len(sub[i].correctAnswers)
       /\ \A k \in 1..Len(p.answers) :
            p.answers[k] = <<sub[i].correctAnswers[k], sub[i].userAnswers[k]>>

\* the step made no collaborator call: the process goes on and the job holds
\* no verdict
C32_NoCall(i) == alive' /\ sub'[i].llm = NoVerdict

\* C32 as stated: the judging prompt of a skips submission pairs canonical
\* answer k with submitted answer k at every position; when the two lists
\* differ in length no collaborator call is made and the submission ends
\* Failed.
C32_MismatchEndsFailed ==
    [][\A i \in SubIds :
         C32_Grading(i)
         => IF Len(sub[i].correctAnswers) = Len(sub[i].userAnswers)
            THEN C32_Paired(i)
            ELSE C32_NoCall(i) /\ C32_RowFailed(i)]_vars

\* C32, amended: the same, provided the RecordStore accepts the fallback
\* write of Failed; when it refuses, the job logs that and returns, and the
\* row stays as it was.  A job that holds no verdict after an accepted
\* fallback leaves its row Failed in its terminal write.
C32_MismatchEndsFailedIfAccepted ==
    [][\A i \in SubIds :
         /\ C32_Grading(i)
            => IF Len(sub[i].correctAnswers) = Len(sub[i].userAnswers)
               THEN C32_Paired(i)
               ELSE /\ C32_NoCall(i)
                    /\ \/ sub'[i].pc = "verdict" /\ C32_RowFailed(i)
                       \/ /\ sub'[i].pc = "done" /\ sub'[i].logged
                          /\ submissions' = submissions
         /\ (/\ sub[i].kind = "skips" /\ sub[i].pc = "verdict" /\ sub[i].llm = NoVerdict
             /\ sub'[i] # sub[i])
            => sub'[i].pc = "done" /\ C32_RowFailed(i)]_vars

\* a skips job was stopped by lists of different lengths: it holds no
\* verdict, and its row is Failed without hints
C32_Witness ==
    \E i \in SubIds, r \in submissions :
      /\ sub[i].kind = "skips" /\ sub[i].pc = "verdict" /\ sub[i].llm = NoVerdict
      /\ Len(sub[i].correctAnswers) # Len(sub[i].userAnswers)
      /\ Len(sub[i].correctAnswers) > 0
      /\ r.id = sub[i].id /\ r.status = "Failed" /\ r.hints = NullArr

\* a job still running has written the task row with the given id: a
\* regeneration job past its update, or a generation job past its commit
C33_WrittenBy(id) ==
    {<<"regen", j>> : j \in {k \in RegenIds : regen[k].pc = "setdone" /\ regen[k].taskId = id}}
    \cup {<<"gen", j>> : j \in {k \in GenIds :
                                  /\ gen[k].pc = "setdone"
                                  /\ \E r \in aliasRows :
                                       r.alias = gen[k].alias /\ r.task_id = id}}

\* C33: no row is written by two jobs.  A regeneration job that updates a
\* task row is the only job running that has written that row, also when
\* requests for the same alias overlap; a submission row is changed only by
\* the one job that was launched for it.
C33_SingleWriter ==
    [][/\ \A i \in RegenIds :
            (regen[i].pc = "update" /\ regen'[i].pc = "setdone")
            => C33_WrittenBy(regen[i].taskId) = {}
       /\ \A r \in submissions' \ submissions :
            \/ \A q \in submissions : q.id # r.id
            \/ \E i \in SubIds :
                 /\ sub[i].id = r.id /\ sub'[i] # sub[i]
                 /\ \A j \in SubIds \ {i} : sub[j].id # r.id]_vars

\* a text with the given body, wrapped in a code fence or not
C34_Text(fenced, b) == [fence |-> fenced, body |-> b]

\* C34: every job strips the code fence before it parses: a generation job
\* whose collaborator call returns a valid document wrapped in a code fence
\* goes on to persist the code of that document, as it does for the same
\* document without the fence, and a grading job reads the same verdict
\* from a fenced text as from the bare one.
C34_FenceStripped ==
    [][/\ \A i \in GenIds, b \in {x \in GenBodies : x.kind = "json"} :
            /\ GenProcessWith(i, SendText(C34_Text(FALSE, b)))
               => gen'[i].pc = "insert" /\ gen'[i].code = b.code
            /\ GenProcessWith(i, SendText(C34_Text(TRUE, b)))
               => gen'[i].pc = "insert" /\ gen'[i].code = b.code
       /\ \A i \in SubIds :
            (sub[i].pc = "grade" /\ SubProcess(i))
            => \A t \in VerdictTexts(sub[i].kind) :
                 UnmarshalVerdict(CleanLLMResponse([t EXCEPT !.fence = TRUE]))
                 = UnmarshalVerdict([t EXCEPT !.fence = FALSE])]_vars

\* a generation or regeneration job for alias a is running
C35_InFlight(a) ==
    \/ \E i \in GenIds :
         gen[i].alias = a /\ gen[i].pc \in {"process", "insert", "commit", "fail", "setdone"}
    \/ \E i \in RegenIds :
         regen[i].alias = a /\ regen[i].pc \in {"process", "update", "fail", "setdone"}

\* C35: whenever the entry of alias a says Done and no generation or
\* regeneration job for a is running, the result of the entry is the task
\* code the RecordStore holds for a, also after two regeneration jobs for a
\* ran at the same time.
C35_DoneMatchesStore ==
    \A a \in Aliases :
      (status[a].status = "Done" /\ ~C35_InFlight(a))
      => \A t \in GetTaskDetailsByAlias(a) : t.taskCode = status[a].result

\* a fetch of submission job i has failed: the job is still running, and the
\* fallback has set its row to Failed already
C36_FetchFailed(i) ==
    /\ sub[i].pc \in {"code", "grade", "verdict"}
    /\ \E r \in submissions : r.id = sub[i].id /\ r.status = "Failed"

\* C36: once the fetch of the canonical answers or of the task code of a
\* submission job has failed, the job makes no collaborator call (its
\* grading step leaves the process running and gives the job no verdict)
\* and no step writes Success for that submission.
C36_NoGradingAfterFailedFetch ==
    [][\A i \in SubIds :
         C36_FetchFailed(i)
         => /\ (sub[i].pc = "grade" /\ SubProcess(i))
               => alive' /\ sub'[i].llm = NoVerdict
            /\ \A r \in submissions' : r.id = sub[i].id => r.status # "Success"]_vars

\* C37: for an alias no regeneration request was accepted for, an entry
\* that says Error means the RecordStore holds no task bound to that alias,
\* however generation requests and their jobs interleave.
C37_ErrorMeansNoTask ==
    \A a \in Aliases :
      (status[a].status = "Error" /\ \A j \in RegenIds : regen[j].alias # a)
      => GetTaskDetailsByAlias(a) = {}

\* a failing regeneration job writes no row: a bad answer of the
\* collaborator and a refused update take the job to its failure branch with
\* a message, and no step of a regeneration run but its successful update
\* changes table tasks or table aliases
C38_RowsKept(i) ==
    /\ \A reply \in GenReplies :
         (RegenProcessWith(i, reply) /\ BadReply(reply))
         => regen'[i].pc = "fail" /\ regen'[i].err # ""
    /\ (regen[i].pc \in {"process", "update"} /\ regen'[i].pc = "fail")
       => regen'[i].err # ""
    /\ (regen'[i] # regen[i] /\ regen'[i].pc # "setdone")
       => tasks' = tasks /\ aliasRows' = aliasRows

\* the failure branch has stored Error with the failure's message, as JSON
\* encodes it, for the alias of the job
C38_ErrorStored(i) ==
    status' = [status EXCEPT ![regen[i].alias] =
                               TaskStatus("Error", "", ToValidUTF8(regen[i].err))]

\* C38 as stated: when a regeneration job fails (collaborator error,
\* unparsable answer, refused update) the task row keeps its code and
\* answers, the alias binding is unchanged, and the alias status becomes
\* Error.
C38_FailedRegenKeepsTask ==
    [][\A i \in RegenIds :
         /\ C38_RowsKept(i)
         /\ (regen[i].pc = "fail" /\ regen'[i].pc = "done") => C38_ErrorStored(i)]_vars

\* C38, amended: the same, provided the StatusCache accepts the Error
\* write; when it refuses, the job logs that and the entry stays as it was.
C38_FailedRegenKeepsTaskIfAccepted ==
    [][\A i \in RegenIds :
         /\ C38_RowsKept(i)
         /\ RegenSetErrorWith(i, TRUE) => C38_ErrorStored(i)
         /\ RegenSetErrorWith(i, FALSE) => status' = status /\ regen'[i].logged]_vars

\* a regeneration job whose update was refused ended with Error, and the
\* task is as it was stored before the request
C38_Witness ==
    \E i \in RegenIds :
      /\ regen[i].pc = "done" /\ regen[i].resp = OK /\ ~regen[i].logged
      /\ status[regen[i].alias] =
           TaskStatus("Error", "", "failed to update task: failed to update task")
      /\ GetTaskDetailsByAlias(regen[i].alias) = {SkipsTaskRow(1, "c1", UserCode, <<"+">>, 0)}

\* C39: the noises submission job reads the first canonical answer only
\* when the fetched list has one: its grading step never ends the process
\* by indexing an empty list, in particular not after a failed fetch has
\* left the list empty.
C39_IndexGuarded ==
    [][\A i \in SubIds :
         (/\ sub[i].kind = "noises" /\ sub[i].pc = "grade"
          /\ Len(sub[i].correctAnswers) = 0
          /\ SubProcess(i))
         => alive']_vars

\* C40: the task a generation job commits carries the type of the request
\* that created it: noises for the noises request, skips for the skips
\* request.
C40_TypeOfRequest ==
    [][\A i \in GenIds :
         (gen[i].pc = "commit" /\ gen'[i].pc = "setdone")
         => \A t \in tasks' \ tasks : t.type = gen[i].kind]_vars

====
